---- MODULE Spec2Model ----
(***************************************************************************)
(* scripts/generateEquipmentAliases.py as a state machine.                 *)
(*                                                                         *)
(* The script fetches the equipment catalog from the wiki page by page     *)
(* (getEquipmentData), turns every wiki record into an item                 *)
(* {name, id, version}, sorts the items by name, classifies every item     *)
(* against four rules (Locked, cosmetic slayer helmet, Soul Wars / Emir's   *)
(* Arena, degraded), appends one line of text per resolved alias to the     *)
(* global string `data` (handle_base_variant) and writes `data` to a file.  *)
(*                                                                         *)
(* Strings are TLA+ strings. `data` is kept as the sequence of the text     *)
(* chunks that were concatenated into it, so that "the text contains this   *)
(* line" can be asked. A wiki key "Page#Anchor" is kept as the sequence of  *)
(* its '#'-free segments, so that rsplit('#', 1) can be computed.           *)
(***************************************************************************)
EXTENDS Integers, Sequences, FiniteSets, TLC

VARIABLES
    pc,         \* where the script is: "fetch", "process", "sort", "classify",
                \* "finalize", "write", "done", or "failed" (unhandled exception)
    offset,     \* getEquipmentData: the offset cursor
    equipment,  \* getEquipmentData: the merged results, an insertion-ordered dict
    requested,  \* history: the offsets of the requests issued so far (line 33)
    wiki_data,  \* main: the dict getEquipmentData returned
    i,          \* main: position of the loop of line 83 in wiki_data.items()
    all_items,  \* main: the list of items
    idx,        \* main: position of the loop of line 100 in all_items
    data,       \* the global output text, as the sequence of its chunks
    written     \* history: the texts written to FILE_NAME, one per f.write

vars == <<pc, offset, equipment, requested, wiki_data, i, all_items, idx, data, written>>

----------------------------------------------------------------------------
(* Bounds of the model. *)

\* The largest continuation offset a response carries.
MaxOffset == 2
\* The most requests one run issues (the loop of line 26 has no bound of its own).
MaxRequests == 3
\* The most records in one page of results.
MaxPage == 2
\* The most records in a catalog handed to the resolution pass.
MaxCatalog == 3
\* How many times main() runs in the specification that runs it again.
MaxRuns == 2

----------------------------------------------------------------------------
(* Python values. *)

\* None, as getPrintoutValue returns it; no version anchor is this string.
None == "<None>"

\* x or y
Or(x, y) == IF x = None \/ x = "" THEN y ELSE x

\* An offset is an int or, when the server sends a numeric string, a str.
IntVal(n) == [kind |-> "int", n |-> n]
StrVal(n) == [kind |-> "str", n |-> n]

\* int(x)
ToInt(x) == x.n

----------------------------------------------------------------------------
(* Insertion-ordered dicts: sequences of [key, value] with distinct keys. *)

Keys(d) == {d[j].key : j \in 1..Len(d)}

\* d[key] = value: an existing key keeps its place and takes the new value.
DictSet(d, key, value) ==
    IF key \in Keys(d)
    THEN [j \in 1..Len(d) |-> IF d[j].key = key THEN [key |-> key, value |-> value] ELSE d[j]]
    ELSE Append(d, [key |-> key, value |-> value])

\* d | e
RECURSIVE DictMerge(_, _)
DictMerge(d, e) ==
    IF e = <<>> THEN d
    ELSE DictMerge(DictSet(d, Head(e).key, Head(e).value), Tail(e))

----------------------------------------------------------------------------
(* What the wiki answers. A record's key is "Page" or "Page#Anchor"; its    *)
(* printouts are arrays, the version anchor's empty when the page has no    *)
(* versions.                                                                *)

Printouts(slot, id, anchor) ==
    ("Equipment slot" :> <<slot>>) @@ ("Item ID" :> <<id>>) @@ ("Version anchor" :> anchor)

Rec(page, anchor, id) ==
    [key |-> <<page>> \o anchor,
     value |-> [fulltext |-> page, printouts |-> Printouts("slot", id, anchor)]]

\* A record the wiki returned without its printouts.
Bare(page) == [key |-> <<page>>, value |-> [fulltext |-> page]]

\* The records the pages of the fetch are drawn from; the last one has the
\* key of the second and another item ID (a later page overwriting it).
FetchPool ==
    { Rec("Abyssal whip", <<"Normal">>, 4151),
      Rec("Abyssal whip", <<"Locked">>, 21371),
      Bare("Slayer helmet"),
      Rec("Abyssal whip", <<"Locked">>, 26482) }

\* The records the catalogs of the resolution pass are drawn from.
Pool ==
    { Rec("Abyssal whip", <<>>, 4151),
      Rec("Abyssal whip", <<"Locked">>, 21371),
      Rec("Abyssal whip", <<"Normal">>, 4152),
      Rec("Black slayer helmet", <<>>, 19639),
      Rec("Black slayer helmet", <<"Locked">>, 19640),
      Rec("Black slayer helmet", <<"50">>, 19641),
      Rec("Black slayer helmet", <<"Undamaged">>, 19642),
      Rec("Black slayer helmet (i)", <<>>, 19647),
      Rec("Slayer helmet", <<>>, 11864),
      Rec("Slayer helmet (i)", <<>>, 11865),
      Rec("Slayer helmet (i)", <<"Soul Wars">>, 25177),
      Rec("Slayer helmet (i)", <<"Emir's Arena">>, 26674),
      Rec("Slayer helmet (i)", <<"Nightmare Zone">>, 11866),
      Rec("Twisted slayer helmet (i)", <<>>, 24444),
      Rec("Dharok's helm", <<"Undamaged">>, 4716),
      Rec("Dharok's helm", <<"50">>, 4882),
      Bare("Dharok's platebody") }

\* The dicts of at most n records of pool: sequences with distinct keys.
Dicts(pool, n) ==
    UNION { { d \in [1..m -> pool] : \A a, b \in 1..m : a # b => d[a].key # d[b].key }
            : m \in 0..n }

Pages == Dicts(FetchPool, MaxPage)
Catalogs == Dicts(Pool, MaxCatalog)

\* The continuation offsets a response can carry: absent, a number, a numeric string.
Continuations ==
    {<<>>} \cup {<<IntVal(n)>> : n \in 0..MaxOffset} \cup {<<StrVal(n)>> : n \in 0..MaxOffset}

----------------------------------------------------------------------------
(* getEquipmentData: one action per way an iteration of `while True` ends. *)

\* line 33: the request of this iteration, at the current offset.
Request == Append(requested, ToInt(offset))

\* FetchFails with the failure caught and the text so far saved to the file.
FetchFailsCheckpoint ==
    /\ pc = "fetch"
    /\ Len(requested) < MaxRequests
    /\ requested' = Request
    /\ written' = Append(written, data)
    /\ pc' = "failed"
    /\ UNCHANGED <<offset, equipment, wiki_data, i, all_items, idx, data>>

\* lines 33-36: requests.get or r.json() raises; nothing catches it.
FetchFails ==
    /\ pc = "fetch"
    /\ Len(requested) < MaxRequests
    /\ requested' = Request
    /\ pc' = "failed"
    /\ UNCHANGED <<offset, equipment, wiki_data, i, all_items, idx, data, written>>

\* line 49 and line 78: return equipment; the locals of the call are gone.
Return(result) ==
    /\ wiki_data' = result
    /\ equipment' = <<>>
    /\ offset' = IntVal(0)
    /\ pc' = "process"

\* lines 38-40: the response holds no query.results: break.
FetchNoResults ==
    /\ pc = "fetch"
    /\ Len(requested) < MaxRequests
    /\ requested' = Request
    /\ Return(equipment)
    /\ UNCHANGED <<i, all_items, idx, data, written>>

\* lines 42-46: a page of results is merged, and the loop breaks because the
\* response has no continuation offset, or one below the current offset.
FetchLastPage ==
    /\ pc = "fetch"
    /\ Len(requested) < MaxRequests
    /\ \E results \in Pages, cont \in Continuations :
          /\ \/ cont = <<>>
             \/ /\ cont # <<>>
                /\ offset.kind = "int"
                /\ ToInt(cont[1]) < offset.n
          /\ requested' = Request
          /\ Return(DictMerge(equipment, results))
    /\ UNCHANGED <<i, all_items, idx, data, written>>

\* lines 42-48: a page of results is merged, and the cursor moves to the
\* continuation offset, which is not below the current one.
FetchNextPage ==
    /\ pc = "fetch"
    /\ Len(requested) < MaxRequests
    /\ \E results \in Pages, cont \in Continuations :
          /\ cont # <<>>
          /\ offset.kind = "int"
          /\ ~(ToInt(cont[1]) < offset.n)
          /\ requested' = Request
          /\ equipment' = DictMerge(equipment, results)
          /\ offset' = cont[1]
    /\ UNCHANGED <<pc, wiki_data, i, all_items, idx, data, written>>

\* line 44: the cursor holds a numeric string taken from an earlier response,
\* and int(...) < offset raises TypeError.
FetchTypeError ==
    /\ pc = "fetch"
    /\ Len(requested) < MaxRequests
    /\ offset.kind = "str"
    /\ \E results \in Pages, cont \in Continuations :
          /\ cont # <<>>
          /\ requested' = Request
          /\ equipment' = DictMerge(equipment, results)
    /\ pc' = "failed"
    /\ UNCHANGED <<offset, wiki_data, i, all_items, idx, data, written>>

----------------------------------------------------------------------------
(* main, lines 83-96: from wiki records to items. *)

\* k.rsplit('#', 1)[0]: the key up to its last '#', the whole key if it has none.
RECURSIVE Join(_)
Join(segments) ==
    IF Len(segments) = 1 THEN segments[1]
    ELSE segments[1] \o "#" \o Join(Tail(segments))

Rsplit(key) ==
    IF Len(key) = 1 THEN key[1] ELSE Join(SubSeq(key, 1, Len(key) - 1))

\* An SMW printout is an array: its first value, or None when it is empty.
getPrintoutValue(prop) == IF prop = <<>> THEN None ELSE prop[1]

\* lines 92-96. The query of line 31 asks for records that have an Item ID,
\* so that printout is never empty and `id` is a number.
Item(k, po) ==
    [name |-> Rsplit(k),
     id |-> getPrintoutValue(po["Item ID"]),
     version |-> Or(getPrintoutValue(po["Version anchor"]), "")]

\* lines 86-88: a record without printouts is skipped.
SkipRecord ==
    /\ pc = "process"
    /\ i <= Len(wiki_data)
    /\ "printouts" \notin DOMAIN wiki_data[i].value
    /\ i' = i + 1
    /\ UNCHANGED <<pc, offset, equipment, requested, wiki_data, all_items, idx, data, written>>

\* lines 90-96: the record's item is appended to all_items.
AddItem ==
    /\ pc = "process"
    /\ i <= Len(wiki_data)
    /\ "printouts" \in DOMAIN wiki_data[i].value
    /\ all_items' = Append(all_items, Item(wiki_data[i].key, wiki_data[i].value.printouts))
    /\ i' = i + 1
    /\ UNCHANGED <<pc, offset, equipment, requested, wiki_data, idx, data, written>>

----------------------------------------------------------------------------
(* main, line 98: all_items.sort(key=lambda d: d.get('name')). *)

\* The names of the model in the order of Python's str comparison (by code
\* point): a name is below the names that follow it.
NameOrder ==
    << "Abyssal whip", "Black slayer helmet", "Black slayer helmet (i)",
       "Dharok's helm", "Dharok's platebody",
       "Slayer helmet", "Slayer helmet (i)", "Twisted slayer helmet (i)" >>

Rank(name) == CHOOSE r \in 1..Len(NameOrder) : NameOrder[r] = name

\* a < b on names
NameLess(a, b) == Rank(a) < Rank(b)

\* list.sort is stable: an item goes behind the items that are not above it.
RECURSIVE Insert(_, _)
Insert(sorted, x) ==
    IF sorted = <<>> THEN <<x>>
    ELSE IF NameLess(x.name, sorted[Len(sorted)].name)
         THEN Append(Insert(SubSeq(sorted, 1, Len(sorted) - 1), x), sorted[Len(sorted)])
         ELSE Append(sorted, x)

RECURSIVE InsertAll(_, _)
InsertAll(sorted, items) ==
    IF items = <<>> THEN sorted ELSE InsertAll(Insert(sorted, Head(items)), Tail(items))

\* SortByName with the sort left out.
SortByNameNoSort(items) == items

SortByName(items) == InsertAll(<<>>, items)

SortItems ==
    /\ pc = "process"
    /\ i > Len(wiki_data)
    /\ all_items' = SortByName(all_items)
    /\ idx' = 1
    /\ pc' = "classify"
    /\ UNCHANGED <<offset, equipment, requested, wiki_data, i, data, written>>

----------------------------------------------------------------------------
(* The output text. *)

\* lines 59-64: the text `data` starts as.
HEADER ==
    "/**\n * A map of item ID -> item ID for items that are identical in function, but different in appearance. This includes\n * \"locked\" variants of items, broken/degraded variants of armour and weapons, and cosmetic recolours of equipment.\n * @see https://oldschool.runescape.wiki/w/Trouver_parchment\n */\nexport const equipmentAliases = {"

\* line 71: '\n    %s: %s, // %s' % (id, base id, comment)
FormatEntry(id, base_id, comment) ==
    "\n    " \o ToString(id) \o ": " \o ToString(base_id) \o ", // " \o comment

\* Matches with the version not compared.
MatchesByName(items, base_name, base_version) ==
    {j \in 1..Len(items) : items[j].name = base_name}

\* line 69: the first item of all_items with that name and version, if any.
Matches(items, base_name, base_version) ==
    {j \in 1..Len(items) : items[j].name = base_name /\ items[j].version = base_version}

First(S) == CHOOSE j \in S : \A m \in S : j <= m

\* handle_base_variant with the two ids of the entry exchanged.
handle_base_variant_swapped(d, items, variant_item, base_name, base_version) ==
    LET found == Matches(items, base_name, base_version) IN
    IF found = {} THEN d
    ELSE Append(d, FormatEntry(items[First(found)].id, variant_item.id,
                               variant_item.name \o "#" \o variant_item.version))

\* lines 67-71: `data` after handle_base_variant(all_items, variant_item, base_name, base_version).
handle_base_variant(d, items, variant_item, base_name, base_version) ==
    LET found == Matches(items, base_name, base_version) IN
    IF found = {} THEN d
    ELSE Append(d, FormatEntry(variant_item.id, items[First(found)].id,
                               variant_item.name \o "#" \o variant_item.version))

----------------------------------------------------------------------------
(* main, lines 100-114: the rules. *)

\* line 101: the ten prefixes of the cosmetic slayer helmets.
SlayerPrefixes ==
    {"Black", "Green", "Red", "Purple", "Turquoise", "Hydra", "Twisted", "Tztok",
     "Vampyric", "Tzkal"}

\* line 101: re.match of the anchored pattern: <<>> when the name does not
\* match, else <<group(1)>>, which is " (i)" or None.
slayer_helm_match(name) ==
    IF \E p \in SlayerPrefixes : name = p \o " slayer helmet" THEN <<None>>
    ELSE IF \E p \in SlayerPrefixes : name = p \o " slayer helmet" \o " (i)" THEN <<" (i)">>
    ELSE <<>>

\* SlayerBaseName with the suffix of the match dropped.
SlayerBaseNamePlain(group1) == "Slayer helmet"

\* line 108: 'Slayer helmet%s' % (slayer_helm_match.group(1) or '')
SlayerBaseName(group1) == "Slayer helmet" \o Or(group1, "")

\* LockedBaseVersion as the empty version.
LockedBaseVersionEmpty == ""

\* line 105: the version a Locked item's base has.
LockedBaseVersion == "Normal"

\* line 110: the versions the anchored pattern matches.
MinigameVersions == {"Soul Wars", "Emir's Arena"}

\* DegradedVersions with one alternative of the pattern mistyped.
DegradedVersionsTypo == {"25", "5", "75", "100"}

\* line 113: the versions the anchored pattern matches.
DegradedVersions == {"25", "50", "75", "100"}

\* Classify with the next rule tried when a rule's base is not found.
ClassifyFallThrough(d, items, item) ==
    LET m == slayer_helm_match(item.name)
        locked == IF item.version = "Locked"
                  THEN handle_base_variant(d, items, item, item.name, LockedBaseVersion) ELSE d
        slayer == IF m # <<>>
                  THEN handle_base_variant(d, items, item, SlayerBaseName(m[1]), "") ELSE d
        minigame == IF item.version \in MinigameVersions
                    THEN handle_base_variant(d, items, item, item.name, "Nightmare Zone") ELSE d
        degraded == IF item.version \in DegradedVersions
                    THEN handle_base_variant(d, items, item, item.name, "Undamaged") ELSE d
    IN IF locked # d THEN locked
       ELSE IF slayer # d THEN slayer
       ELSE IF minigame # d THEN minigame
       ELSE degraded

\* lines 101-114: `data` after the body of the loop for one item.
Classify(d, items, item) ==
    LET m == slayer_helm_match(item.name) IN
    IF item.version = "Locked"
    THEN handle_base_variant(d, items, item, item.name, LockedBaseVersion)
    ELSE IF m # <<>>
    THEN handle_base_variant(d, items, item, SlayerBaseName(m[1]), "")
    ELSE IF item.version \in MinigameVersions
    THEN handle_base_variant(d, items, item, item.name, "Nightmare Zone")
    ELSE IF item.version \in DegradedVersions
    THEN handle_base_variant(d, items, item, item.name, "Undamaged")
    ELSE d

ClassifyItem ==
    /\ pc = "classify"
    /\ idx <= Len(all_items)
    /\ data' = Classify(data, all_items, all_items[idx])
    /\ idx' = idx + 1
    /\ UNCHANGED <<pc, offset, equipment, requested, wiki_data, i, all_items, written>>

\* line 116: data += '\n}'
Finalize ==
    /\ pc = "classify"
    /\ idx > Len(all_items)
    /\ data' = Append(data, "\n}")
    /\ pc' = "write"
    /\ UNCHANGED <<offset, equipment, requested, wiki_data, i, all_items, idx, written>>

\* lines 118-121: the text is written to FILE_NAME, and main returns.
WriteFile ==
    /\ pc = "write"
    /\ written' = Append(written, data)
    /\ pc' = "done"
    /\ UNCHANGED <<offset, equipment, requested, wiki_data, i, all_items, idx, data>>

----------------------------------------------------------------------------
(* The script: line 123 calls main() once, after line 59 has set `data`. *)

Init ==
    /\ pc = "fetch"
    /\ offset = IntVal(0)
    /\ equipment = <<>>
    /\ requested = <<>>
    /\ wiki_data = <<>>
    /\ i = 1
    /\ all_items = <<>>
    /\ idx = 1
    /\ data = <<HEADER>>
    /\ written = <<>>

Next ==
    \/ FetchFails
    \/ FetchNoResults
    \/ FetchLastPage
    \/ FetchNextPage
    \/ FetchTypeError
    \/ SkipRecord
    \/ AddItem
    \/ SortItems
    \/ ClassifyItem
    \/ Finalize
    \/ WriteFile

Spec == Init /\ [][Next]_vars

(* The resolution pass over every catalog of the pool: the state in which   *)
(* getEquipmentData has returned the catalog from one page of results with  *)
(* no continuation offset.                                                  *)
InitResolve ==
    /\ pc = "process"
    /\ offset = IntVal(0)
    /\ equipment = <<>>
    /\ requested = <<0>>
    /\ wiki_data \in Catalogs
    /\ i = 1
    /\ all_items = <<>>
    /\ idx = 1
    /\ data = <<HEADER>>
    /\ written = <<>>

NextResolve ==
    \/ SkipRecord
    \/ AddItem
    \/ SortItems
    \/ ClassifyItem
    \/ Finalize
    \/ WriteFile

SpecResolve == InitResolve /\ [][NextResolve]_vars

(* main() called again in the same interpreter over the same catalog: line  *)
(* 80 starts all_items afresh, and nothing sets the global `data` again.    *)
RunAgain ==
    /\ pc = "done"
    /\ Len(written) < MaxRuns
    /\ all_items' = <<>>
    /\ i' = 1
    /\ idx' = 1
    /\ pc' = "process"
    /\ UNCHANGED <<offset, equipment, requested, wiki_data, data, written>>

NextRerun ==
    \/ SkipRecord
    \/ AddItem
    \/ SortItems
    \/ ClassifyItem
    \/ Finalize
    \/ WriteFile
    \/ RunAgain

SpecRerun == InitResolve /\ [][NextRerun]_vars

----------------------------------------------------------------------------
(* What the claims speak of. *)

\* The catalog: the items of the fetched records, in the order they were fetched.
Fetched ==
    LET RECURSIVE Build(_)
        Build(d) ==
            IF d = <<>> THEN <<>>
            ELSE IF "printouts" \in DOMAIN Head(d).value
                 THEN <<Item(Head(d).key, Head(d).value.printouts)>> \o Build(Tail(d))
                 ELSE Build(Tail(d))
    IN Build(wiki_data)

Catalog == {Fetched[j] : j \in 1..Len(Fetched)}

\* The text the run wrote.
Output == written[Len(written)]

Comment(r) == r.name \o "#" \o r.version

\* The places of the text that hold an alias entry from id to base_id.
EntriesFromTo(text, id, base_id) ==
    {j \in 1..Len(text) : \E x \in Catalog : text[j] = FormatEntry(id, base_id, Comment(x))}

\* The places of the text that hold an alias entry from id.
EntriesFrom(text, id) == UNION {EntriesFromTo(text, id, b.id) : b \in Catalog}

\* The alias entries of a text: all of it but its header and its closing brace.
EntryPlaces(text) == {j \in 1..Len(text) : text[j] # HEADER /\ text[j] # "\n}"}

\* The cosmetic slayer helmets, without and with the suffix.
PlainHelmets == {p \o " slayer helmet" : p \in SlayerPrefixes}
ImbuedHelmets == {p \o " slayer helmet (i)" : p \in SlayerPrefixes}

\* The base (name, version) of the first rule a record matches in the order
\* Locked, slayer helmet, minigame, degraded: <<>> when it matches none.
RuleBase(r) ==
    IF r.version = "Locked" THEN <<[name |-> r.name, version |-> "Normal"]>>
    ELSE IF r.name \in PlainHelmets THEN <<[name |-> "Slayer helmet", version |-> ""]>>
    ELSE IF r.name \in ImbuedHelmets THEN <<[name |-> "Slayer helmet (i)", version |-> ""]>>
    ELSE IF r.version \in {"Soul Wars", "Emir's Arena"}
         THEN <<[name |-> r.name, version |-> "Nightmare Zone"]>>
    ELSE IF r.version \in {"25", "50", "75", "100"}
         THEN <<[name |-> r.name, version |-> "Undamaged"]>>
    ELSE <<>>

\* The records of the catalog that are the base of r's rule.
BasesOf(r) ==
    IF RuleBase(r) = <<>> THEN {}
    ELSE {b \in Catalog : b.name = RuleBase(r)[1].name /\ b.version = RuleBase(r)[1].version}

\* A record that matches a rule whose base is not in the catalog.
Dropped(r) == RuleBase(r) # <<>> /\ BasesOf(r) = {}

----------------------------------------------------------------------------
(* C1. Locked-item rule: once the run has written its output, for every     *)
(* catalog record r with version "Locked" and every catalog record b with   *)
(* r's name and version "Normal", the output holds the alias entry from     *)
(* r's id to b's id exactly once.                                           *)
C1_LockedRule ==
    pc = "done" =>
        \A r, b \in Catalog :
            (r.version = "Locked" /\ b.name = r.name /\ b.version = "Normal")
                => Cardinality(EntriesFromTo(Output, r.id, b.id)) = 1

\* A finished run over a catalog with a Locked record and its Normal base.
C1_Witness ==
    /\ pc = "done"
    /\ \E r, b \in Catalog : r.version = "Locked" /\ b.name = r.name /\ b.version = "Normal"

(* C2 as stated. Slayer-helmet rule: for every catalog record r, whatever   *)
(* its version, named as a cosmetic slayer helmet, when the catalog holds   *)
(* "Slayer helmet" (with r's suffix) with the empty version, the output     *)
(* holds the alias entry from r's id to that record's id.                   *)
C2_AnyVersion ==
    pc = "done" =>
        \A r, b \in Catalog :
            /\ ((r.name \in PlainHelmets /\ b.name = "Slayer helmet" /\ b.version = "")
                    => EntriesFromTo(Output, r.id, b.id) # {})
            /\ ((r.name \in ImbuedHelmets /\ b.name = "Slayer helmet (i)" /\ b.version = "")
                    => EntriesFromTo(Output, r.id, b.id) # {})

(* C2 as amended. Slayer-helmet rule: the same for every catalog record r   *)
(* whose version is not "Locked" (a Locked record is taken by the Locked    *)
(* rule, which comes first).                                                *)
C2_SlayerRule ==
    pc = "done" =>
        \A r, b \in Catalog :
            r.version # "Locked" =>
                /\ ((r.name \in PlainHelmets /\ b.name = "Slayer helmet" /\ b.version = "")
                        => EntriesFromTo(Output, r.id, b.id) # {})
                /\ ((r.name \in ImbuedHelmets /\ b.name = "Slayer helmet (i)" /\ b.version = "")
                        => EntriesFromTo(Output, r.id, b.id) # {})

\* A finished run over a catalog with a cosmetic helmet of a version that is
\* neither empty nor "Locked", and its base.
C2_Witness ==
    /\ pc = "done"
    /\ \E r, b \in Catalog :
          /\ r.name \in PlainHelmets /\ r.version \notin {"", "Locked"}
          /\ b.name = "Slayer helmet" /\ b.version = ""

(* C3 as stated. Degradation rule: for every catalog record r, whatever its *)
(* name, of version "25", "50", "75" or "100", and every catalog record b   *)
(* with r's name and version "Undamaged", the output holds the alias entry  *)
(* from r's id to b's id.                                                   *)
C3_AnyName ==
    pc = "done" =>
        \A r, b \in Catalog :
            (r.version \in {"25", "50", "75", "100"} /\ b.name = r.name /\ b.version = "Undamaged")
                => EntriesFromTo(Output, r.id, b.id) # {}

(* C3 as amended. Degradation rule: the same for every catalog record r     *)
(* that is not named as a cosmetic slayer helmet (such a record is taken by *)
(* the slayer-helmet rule, which comes first).                              *)
C3_DegradationRule ==
    pc = "done" =>
        \A r, b \in Catalog :
            (/\ r.name \notin PlainHelmets \cup ImbuedHelmets
             /\ r.version \in {"25", "50", "75", "100"}
             /\ b.name = r.name /\ b.version = "Undamaged")
                => EntriesFromTo(Output, r.id, b.id) # {}

\* A finished run over a catalog with a degraded record, not a slayer
\* helmet, and its Undamaged base.
C3_Witness ==
    /\ pc = "done"
    /\ \E r, b \in Catalog :
          /\ r.name \notin PlainHelmets \cup ImbuedHelmets
          /\ r.version \in {"25", "50", "75", "100"}
          /\ b.name = r.name /\ b.version = "Undamaged"

\* The catalog of the example: the whip with the empty version, its Locked
\* variant, and no other record of that name.
WhipExample ==
    /\ [name |-> "Abyssal whip", id |-> 4151, version |-> ""] \in Catalog
    /\ [name |-> "Abyssal whip", id |-> 21371, version |-> "Locked"] \in Catalog
    /\ \A r \in Catalog : r.name = "Abyssal whip" => r.id \in {4151, 21371}

(* C4 as stated. With the catalog of the example, the output holds an alias *)
(* entry from 21371 to 4151.                                                *)
C4_EmptyVersionBase ==
    (pc = "done" /\ WhipExample) => EntriesFromTo(Output, 21371, 4151) # {}

(* C4 as amended. With the catalog of the example, the output holds no      *)
(* alias entry from 21371: the base of a Locked record is the record of its *)
(* name with version "Normal", and whenever the output holds an entry from  *)
(* a Locked record's id to some id, that id is the id of such a record.     *)
C4_NormalVersionBase ==
    pc = "done" =>
        /\ WhipExample => EntriesFrom(Output, 21371) = {}
        /\ \A r, x \in Catalog :
              (r.version = "Locked" /\ EntriesFromTo(Output, r.id, x.id) # {})
                  => \E b \in Catalog : b.name = r.name /\ b.version = "Normal" /\ b.id = x.id

\* A finished run over the catalog of the example.
C4_Witness == pc = "done" /\ WhipExample

(* C5. Fetch-loop termination: the offsets of the requests issued are       *)
(* strictly increasing.                                                     *)
C5_OffsetsIncrease ==
    \A a, b \in 1..Len(requested) : a < b => requested[a] < requested[b]

(* C6. Missing base: a record that matches a rule whose base is not in the  *)
(* catalog leaves the text as it is when it is classified, the loop goes on *)
(* to the next record, and the output of the finished run holds no alias    *)
(* entry from that record's id.                                             *)
C6_MissingBaseDropped ==
    /\ [](pc = "done" => \A r \in Catalog : Dropped(r) => EntriesFrom(Output, r.id) = {})
    /\ [][(pc = "classify" /\ idx <= Len(all_items) /\ Dropped(all_items[idx]))
             => (data' = data /\ idx' = idx + 1 /\ pc' = "classify")]_vars

\* A finished run that dropped a record and emitted an entry for another.
C6_Witness ==
    /\ pc = "done"
    /\ \E r \in Catalog : Dropped(r)
    /\ EntryPlaces(Output) # {}

(* C7. Idempotence: when the resolution pass has run twice over the same    *)
(* catalog, the text written the second time is the text written the first  *)
(* time.                                                                    *)
C7_SecondRunSameText ==
    Len(written) = 2 => written[2] = written[1]

(* C8. Phase order: no request is issued once a record has been processed;  *)
(* a record is classified only after the fetch has returned and every       *)
(* record has been processed; the file is written only after every item has *)
(* been classified and the text closed, and at most once; after a failed    *)
(* fetch nothing happens and the file is never written.                     *)
C8_PhaseOrder ==
    /\ [](Len(written) <= 1)
    /\ [](pc = "failed" => written = <<>>)
    /\ [][requested' # requested
             => (i = 1 /\ all_items = <<>> /\ idx = 1 /\ data = <<HEADER>> /\ written = <<>>)]_vars
    /\ [][(idx' # idx \/ data' # data)
             => (pc \notin {"fetch", "failed"} /\ i > Len(wiki_data) /\ written = <<>>)]_vars
    /\ [][written' # written
             => (/\ pc \notin {"fetch", "failed"}
                 /\ i > Len(wiki_data)
                 /\ idx > Len(all_items)
                 /\ Len(all_items) = Len(Fetched)
                 /\ data[Len(data)] = "\n}")]_vars
    /\ [][pc = "failed" => UNCHANGED vars]_vars

\* A finished run that fetched two pages, classified two items and wrote
\* the file.
C8_Witness ==
    /\ pc = "done"
    /\ Len(requested) >= 2
    /\ Len(all_items) >= 2
    /\ Len(written) = 1

(* C9. Output order: the alias entries of the output can be traced to       *)
(* catalog records so that, of any two entries, the earlier one's record    *)
(* has the lower name, or the same name and was fetched earlier.            *)
C9_OutputOrder ==
    pc = "done" =>
        LET E == SelectSeq(Output, LAMBDA c : c # HEADER /\ c # "\n}") IN
        \E f \in [1..Len(E) -> 1..Len(Fetched)] :
            /\ \A a \in 1..Len(E) : \E b \in Catalog :
                  E[a] = FormatEntry(Fetched[f[a]].id, b.id, Comment(Fetched[f[a]]))
            /\ \A a, b \in 1..Len(E) :
                  a < b => \/ NameLess(Fetched[f[a]].name, Fetched[f[b]].name)
                           \/ Fetched[f[a]].name = Fetched[f[b]].name /\ f[a] < f[b]

\* A finished run with two entries whose records were fetched in the other
\* order, the higher name first.
C9_Witness ==
    /\ pc = "done"
    /\ \E a, b \in 1..Len(Fetched) :
          /\ a < b
          /\ NameLess(Fetched[b].name, Fetched[a].name)
          /\ EntriesFrom(Output, Fetched[a].id) # {}
          /\ EntriesFrom(Output, Fetched[b].id) # {}

(* C10. First match wins: classifying a record appends the one entry of the *)
(* first rule it matches when that rule's base is in the catalog, and       *)
(* nothing otherwise (no rule matched, or the first rule's base is absent,  *)
(* whatever later rules would give); the text never holds more entries than *)
(* the catalog has records.                                                 *)
C10_FirstMatchWins ==
    /\ [](Cardinality(EntryPlaces(data)) <= Len(Fetched))
    /\ [][(pc = "classify" /\ idx <= Len(all_items)) =>
             LET r == all_items[idx] IN
             IF BasesOf(r) = {} THEN data' = data
             ELSE \E b \in BasesOf(r) : data' = Append(data, FormatEntry(r.id, b.id, Comment(r)))]_vars

\* A finished run over a catalog with a Locked cosmetic helmet whose Normal
\* base is absent while the base of the slayer-helmet rule is there.
C10_Witness ==
    /\ pc = "done"
    /\ \E r, b \in Catalog :
          /\ r.version = "Locked" /\ r.name \in PlainHelmets /\ Dropped(r)
          /\ b.name = "Slayer helmet" /\ b.version = ""

====
